---- MODULE Spec2Model ----
(***************************************************************************)
(* Model of caption_generator.py: the caption cleaning function, the       *)
(* per-image engine process_image, the batch orchestrator and the command  *)
(* line entry point.                                                       *)
(*                                                                         *)
(* A caption is a sequence of characters; a character is a one-character   *)
(* string, except the four non-ASCII code points the model carries, which  *)
(* are written "U+0130" (capital I with dot above), "U+0149" (n preceded by *)
(* apostrophe), "U+0307" (combining dot above), "U+02BC" (modifier letter  *)
(* apostrophe).                                                            *)
(***************************************************************************)
EXTENDS Integers, Sequences, FiniteSets, TLC

VARIABLES
    pc,          \* position of the single thread of control
    argv,        \* sys.argv[1:], the image paths given on the command line
    device,      \* "cuda" or "cpu" (line 9)
    loaded,      \* the model and preprocessor: "no", "yes" or "failed"
    vocab,       \* which texts processor.decode may return: "any" or "sample"
    idx,         \* position of generate_batch_captions' for loop
    path,        \* process_image's parameter
    retpc,       \* where process_image returns to
    held,        \* process_image's live locals among image, inputs, outputs
    cacheDirty,  \* the accelerator's cache holds blocks of a finished call
    raw,         \* the decoded caption (process_image's local caption)
    exc,         \* the message of the exception process_image caught
    pending,     \* the value a return statement of process_image has set
    ret,         \* process_image's return value as seen by the caller
    results,     \* generate_batch_captions' list of records
    stdout,      \* lines printed to standard output
    stderr,      \* lines printed to the error stream
    exitStatus,  \* the status the process ends with (0 unless an error sets it)
    calls,       \* history: one entry per finished process_image call
    once,        \* clean_caption(raw), for the function's own specification
    twice        \* clean_caption(clean_caption(raw))

vars == <<pc, argv, device, loaded, vocab, idx, path, retpc, held, cacheDirty, raw, exc,
          pending, ret, results, stdout, stderr, exitStatus, calls, once, twice>>

(***************************************************************************)
(* Characters                                                              *)
(***************************************************************************)
LowerLetters == <<"a","c","d","e","f","g","h","i","l","m","n","o","p","r","t","u","x","y">>
UpperLetters == <<"A","C","D","E","F","G","H","I","L","M","N","O","P","R","T","U","X","Y">>

Range(s) == {s[k] : k \in DOMAIN s}

AsciiLower == Range(LowerLetters)

AsciiUpper == Range(UpperLetters)

\* the ASCII letters' case pairs
ToLower == [c \in AsciiUpper |-> LowerLetters[CHOOSE k \in DOMAIN UpperLetters : UpperLetters[k] = c]]

ToUpper == [c \in AsciiLower |-> UpperLetters[CHOOSE k \in DOMAIN LowerLetters : LowerLetters[k] = c]]

IsAsciiLower(c) == c \in AsciiLower

IsAsciiUpper(c) == c \in AsciiUpper

\* str.isspace, the characters str.strip removes
IsSpace(c) == c \in {" ", "\t"}

\* the regular expression's \w: alphanumeric (str.isalnum) or underscore
WordChars == AsciiLower \cup AsciiUpper \cup {"_", "9", "U+0130", "U+0149", "U+02BC"}

IsWord(c) == c \in WordChars

\* str.lower of one character (the full mapping: it may give two characters)
Lower(c) ==
    IF IsAsciiUpper(c) THEN <<ToLower[c]>>
    ELSE IF c = "U+0130" THEN <<"i", "U+0307">>
    ELSE <<c>>

\* the title case of one character, as str.capitalize applies it to the first
Title(c) ==
    IF IsAsciiLower(c) THEN <<ToUpper[c]>>
    ELSE IF c = "U+0149" THEN <<"U+02BC", "N">>
    ELSE <<c>>

\* re.IGNORECASE: the simple (one to one) lower case of a subject character
SimpleLower(c) ==
    IF IsAsciiUpper(c) THEN ToLower[c]
    ELSE IF c = "U+0130" THEN "i"
    ELSE c

(***************************************************************************)
(* clean_caption                                                           *)
(***************************************************************************)
\* the alternatives of the pattern, in the order the pattern tries them,
\* each followed by " of"
Alternatives ==
    << <<"a"," ","p","i","c","t","u","r","e"," ","o","f">>,
       <<"a","n"," ","i","m","a","g","e"," ","o","f">>,
       <<"a"," ","p","h","o","t","o"," ","o","f">>,
       <<"a"," ","p","h","o","t","o","g","r","a","p","h"," ","o","f">> >>

\* \b at the gap before position i of s (i in 1 .. Len(s)+1)
Boundary(s, i) ==
    LET before == i > 1 /\ IsWord(s[i - 1])
        after  == i <= Len(s) /\ IsWord(s[i])
    IN  before # after

\* the literal p matches s at position i, ignoring case
LiteralAt(p, s, i) ==
    /\ i + Len(p) - 1 <= Len(s)
    /\ \A k \in 1 .. Len(p) : SimpleLower(s[i + k - 1]) = p[k]

\* faulty variant: the pattern without its closing \b
MatchLenNoClosingBoundary(s, i) ==
    LET ok(a) == /\ Boundary(s, i)
                 /\ LiteralAt(Alternatives[a], s, i)
        hits == {a \in DOMAIN Alternatives : ok(a)}
    IN  IF hits = {} THEN 0
        ELSE Len(Alternatives[CHOOSE a \in hits : \A b \in hits : a <= b])

\* the length of the pattern's match at position i of s, 0 if there is none
MatchLen(s, i) ==
    LET ok(a) == /\ Boundary(s, i)
                 /\ LiteralAt(Alternatives[a], s, i)
                 /\ Boundary(s, i + Len(Alternatives[a]))
        hits == {a \in DOMAIN Alternatives : ok(a)}
    IN  IF hits = {} THEN 0
        ELSE Len(Alternatives[CHOOSE a \in hits : \A b \in hits : a <= b])

\* re.sub(pattern, '', s): the leftmost matches, none overlapping, removed
RECURSIVE SubFrom(_, _)
SubFrom(s, i) ==
    IF i > Len(s) THEN <<>>
    ELSE LET n == MatchLen(s, i)
         IN  IF n > 0 THEN SubFrom(s, i + n)
             ELSE <<s[i]>> \o SubFrom(s, i + 1)

ReSub(s) == SubFrom(s, 1)

\* str.strip
RECURSIVE LStrip(_)
LStrip(s) == IF s # <<>> /\ IsSpace(Head(s)) THEN LStrip(Tail(s)) ELSE s

RECURSIVE RStrip(_)
RStrip(s) ==
    IF s # <<>> /\ IsSpace(s[Len(s)]) THEN RStrip(SubSeq(s, 1, Len(s) - 1)) ELSE s

Strip(s) == RStrip(LStrip(s))

RECURSIVE LowerAll(_)
LowerAll(s) == IF s = <<>> THEN <<>> ELSE Lower(Head(s)) \o LowerAll(Tail(s))

\* faulty variant: the caption returned without capitalize
CapitalizeForgotten(s) == s

\* str.capitalize: the first character in title case, the rest in lower case
Capitalize(s) == IF s = <<>> THEN <<>> ELSE Title(Head(s)) \o LowerAll(Tail(s))

\* faulty variant: strip applied to the caption before the substitution, not after
clean_caption_StripFirst(caption) == Capitalize(ReSub(Strip(caption)))

clean_caption(caption) == Capitalize(Strip(ReSub(caption)))

(***************************************************************************)
(* The captions the specifications draw from: every concatenation of at    *)
(* most MaxPieces pieces.                                                  *)
(***************************************************************************)
MaxPieces == 3

Pieces ==
    { <<"a"," ","p","h","o","t","o"," ","o","f">>,
      <<"A","N"," ","I","M","A","G","E"," ","O","F">>,
      <<"a"," ","p","h","o","t","o","g","r","a","p","h"," ","o","f">>,
      <<"a"," ","p","i","c","t","u","r","e">>,
      <<" ","o","f">>,
      <<" ","a"," ","d","o","g"," ","r","u","n","n","i","n","g">>,
      <<" ","a"," ","c","a","t">>,
      <<" ","N","Y","C","\t">>,
      <<"l">>,
      <<"_","x">>,
      <<"U+0130">>,
      <<"U+0149">> }

RECURSIVE Concatenations(_)
Concatenations(n) ==
    IF n = 0 THEN {<<>>}
    ELSE LET shorter == Concatenations(n - 1)
         IN  shorter \cup {c \o p : c \in shorter, p \in Pieces}

Captions == Concatenations(MaxPieces)

\* the texts the whole program's specification lets the model decode
SampleCaptions ==
    { <<"a"," ","p","h","o","t","o"," ","o","f">>
          \o <<" ","a"," ","d","o","g"," ","r","u","n","n","i","n","g">>,
      <<"A","N"," ","I","M","A","G","E"," ","O","F">> \o <<" ","a"," ","c","a","t">>,
      <<"a"," ","p","h","o","t","o"," ","o","f">> \o <<" ">> }

\* Python's None, and the value of a variable not yet assigned
Null == <<"None">>

Paths == {"p1", "p2"}

(***************************************************************************)
(* Specification of the pure function: clean_caption applied to a caption, *)
(* and again to its result.                                                *)
(***************************************************************************)
InitClean ==
    /\ pc = "clean"
    /\ raw \in Captions
    /\ once = Null
    /\ twice = Null
    /\ argv = <<>>
    /\ device = "cpu"
    /\ loaded = "yes"
    /\ vocab = "sample"
    /\ idx = 0
    /\ path = ""
    /\ retpc = ""
    /\ held = {}
    /\ cacheDirty = FALSE
    /\ exc = ""
    /\ pending = Null
    /\ ret = Null
    /\ results = <<>>
    /\ stdout = <<>>
    /\ stderr = <<>>
    /\ exitStatus = 0
    /\ calls = <<>>

CleanOnce ==
    /\ pc = "clean"
    /\ once' = clean_caption(raw)
    /\ pc' = "cleaned"
    /\ UNCHANGED <<argv, device, loaded, vocab, idx, path, retpc, held, cacheDirty, raw, exc,
                   pending, ret, results, stdout, stderr, exitStatus, calls, twice>>

CleanTwice ==
    /\ pc = "cleaned"
    /\ twice' = clean_caption(once)
    /\ pc' = "recleaned"
    /\ UNCHANGED <<argv, device, loaded, vocab, idx, path, retpc, held, cacheDirty, raw, exc,
                   pending, ret, results, stdout, stderr, exitStatus, calls, once>>

NextClean == CleanOnce \/ CleanTwice

SpecClean == InitClean /\ [][NextClean]_vars

(***************************************************************************)
(* process_image (lines 33-63), one action per statement that can raise.   *)
(***************************************************************************)
UnchangedIO == UNCHANGED <<argv, device, loaded, vocab, idx, results, stdout, exitStatus,
                           once, twice>>

\* faulty variant: no check for an empty caption
CaptionUnchecked(text) == clean_caption(text)

\* the value process_image computes from the decoded text (lines 47-52):
\* the cleaned caption, or Null when the ValueError of line 50 is raised
CaptionOrRaise(text) ==
    LET cleaned_caption == clean_caption(text)
    IN  IF Strip(cleaned_caption) = <<>> THEN Null ELSE cleaned_caption

\* the line process_image's except clause prints (line 55)
ErrorLine(p, message) == [kind |-> "plain", path |-> p, msg |-> message]

\* faulty variant: outputs is not deleted
AfterDelKeepingOutputs(h) == h \ {"image", "inputs"}

\* the locals still alive after the del statements of lines 58-60
AfterDel(h) == h \ {"image", "inputs", "outputs"}

\* the accelerator's cache after lines 61-62
AfterEmptyCache(dev, dirty) == IF dev = "cuda" THEN FALSE ELSE dirty

\* a tensor placed on the device leaves blocks in the accelerator's cache
Allocated(dev, dirty) == dirty \/ dev = "cuda"

\* what processor.decode (line 46) may return
Decodable == IF vocab = "any" THEN Captions ELSE SampleCaptions

\* line 36: Image.open(path).convert("RGB")
PI_Open ==
    /\ pc = "pi_open"
    /\ \/ /\ held' = held \cup {"image"}
          /\ pc' = "pi_inputs"
          /\ exc' = exc
       \/ /\ \E m \in {"No such file or directory", "cannot identify image file"} :
                exc' = m
          /\ pc' = "pi_except"
          /\ held' = held
    /\ UNCHANGED <<path, retpc, cacheDirty, raw, pending, ret, stderr, calls>>
    /\ UnchangedIO

\* line 38: processor(image, return_tensors="pt").to(device, torch.float16)
PI_Inputs ==
    /\ pc = "pi_inputs"
    /\ \/ /\ held' = held \cup {"inputs"}
          /\ pc' = "pi_generate"
          /\ exc' = exc
       \/ /\ exc' = "preprocessing failed"
          /\ pc' = "pi_except"
          /\ held' = held
    /\ cacheDirty' = Allocated(device, cacheDirty)
    /\ UNCHANGED <<path, retpc, raw, pending, ret, stderr, calls>>
    /\ UnchangedIO

\* lines 39-44: model.generate(...)
PI_Generate ==
    /\ pc = "pi_generate"
    /\ \/ /\ held' = held \cup {"outputs"}
          /\ pc' = "pi_decode"
          /\ exc' = exc
       \/ /\ exc' = "generation failed"
          /\ pc' = "pi_except"
          /\ held' = held
    /\ cacheDirty' = Allocated(device, cacheDirty)
    /\ UNCHANGED <<path, retpc, raw, pending, ret, stderr, calls>>
    /\ UnchangedIO

\* lines 46-52: decode, clean, raise on an empty caption, else return it
PI_Decode ==
    /\ pc = "pi_decode"
    /\ \E text \in Decodable :
          /\ raw' = text
          /\ LET value == CaptionOrRaise(text)
             IN  IF value = Null
                 THEN /\ exc' = "Empty caption generated"
                      /\ pc' = "pi_except"
                      /\ pending' = pending
                 ELSE /\ pending' = value
                      /\ pc' = "pi_finally"
                      /\ exc' = exc
    /\ UNCHANGED <<path, retpc, held, cacheDirty, ret, stderr, calls>>
    /\ UnchangedIO

\* faulty variant: the except clause returns None without printing the error line
PI_ExceptSilent ==
    /\ pc = "pi_except"
    /\ pending' = Null
    /\ pc' = "pi_finally"
    /\ UNCHANGED <<path, retpc, held, cacheDirty, raw, exc, ret, calls, stderr>>
    /\ UnchangedIO

\* lines 54-56: except Exception: print the error line, return None
PI_Except ==
    /\ pc = "pi_except"
    /\ stderr' = Append(stderr, ErrorLine(path, exc))
    /\ pending' = Null
    /\ pc' = "pi_finally"
    /\ UNCHANGED <<path, retpc, held, cacheDirty, raw, exc, ret, calls>>
    /\ UnchangedIO

\* lines 57-63: the finally clause, then the return to the caller
PI_Finally ==
    /\ pc = "pi_finally"
    /\ held' = AfterDel(held)
    /\ cacheDirty' = AfterEmptyCache(device, cacheDirty)
    /\ ret' = pending
    /\ calls' = Append(calls, [path |-> path, result |-> pending])
    /\ pc' = retpc
    /\ UNCHANGED <<path, retpc, raw, exc, pending, stderr>>
    /\ UnchangedIO

PIStates == {"pi_open", "pi_inputs", "pi_generate", "pi_decode", "pi_except", "pi_finally"}

process_image == PI_Open \/ PI_Inputs \/ PI_Generate \/ PI_Decode \/ PI_Except \/ PI_Finally

(***************************************************************************)
(* Specification of process_image alone: one call, on any path, with the   *)
(* model free to decode any caption.                                       *)
(***************************************************************************)
InitImage ==
    /\ pc = "pi_open"
    /\ path \in Paths
    /\ retpc = "returned"
    /\ device = "cuda"
    /\ loaded = "yes"
    /\ vocab = "any"
    /\ cacheDirty = (device = "cuda")
    /\ raw = Null
    /\ once = Null
    /\ twice = Null
    /\ argv = <<>>
    /\ idx = 0
    /\ held = {}
    /\ exc = ""
    /\ pending = Null
    /\ ret = Null
    /\ results = <<>>
    /\ stdout = <<>>
    /\ stderr = <<>>
    /\ exitStatus = 0
    /\ calls = <<>>

SpecImage == InitImage /\ [][process_image]_vars

(***************************************************************************)
(* The program: module level loading (lines 9-21), the entry point (lines  *)
(* 77-88) and generate_batch_captions (lines 65-75).                       *)
(***************************************************************************)
MaxArgs == 3

RECURSIVE ArgLists(_)
ArgLists(n) ==
    IF n = 0 THEN {<<>>}
    ELSE LET shorter == ArgLists(n - 1)
         IN  shorter \cup {Append(a, p) : a \in shorter, p \in Paths}

\* the interpreter's report of an exception nothing caught
Traceback(message) == [kind |-> "traceback", error |-> message]

\* faulty variant: the message printed as it is, not as a JSON object
UnstructuredError(message) == [kind |-> "plain", error |-> message]

\* line 87: json.dumps({"error": str(e)})
StructuredError(message) == [kind |-> "json", error |-> message]

\* faulty variant: the record put at the front of the list
AppendedInFront(res, p, caption) ==
    IF caption # Null THEN <<[path |-> p, caption |-> caption]>> \o res ELSE res

\* lines 70-74: the record appended for a caption that is not None
Appended(res, p, caption) ==
    IF caption # Null THEN Append(res, [path |-> p, caption |-> caption]) ELSE res

\* faulty variant: the caption printed without the test of line 84
TruthyAlways(caption) == TRUE

\* line 84: the truth value of process_image's result
Truthy(caption) == caption # Null /\ caption # <<>>

Init ==
    /\ pc = "load"
    /\ argv \in ArgLists(MaxArgs)
    /\ device \in {"cuda", "cpu"}
    /\ loaded = "no"
    /\ vocab = "sample"
    /\ idx = 0
    /\ path = ""
    /\ retpc = ""
    /\ held = {}
    /\ cacheDirty = FALSE
    /\ raw = Null
    /\ exc = ""
    /\ pending = Null
    /\ ret = Null
    /\ results = <<>>
    /\ stdout = <<>>
    /\ stderr = <<>>
    /\ exitStatus = 0
    /\ calls = <<>>
    /\ once = Null
    /\ twice = Null

UnchangedCall == UNCHANGED <<argv, device, loaded, vocab, held, raw, exc, pending, ret, calls,
                             once, twice>>

\* faulty variant: a failed load reported, but the process ends with status 0
LoadExitZero ==
    /\ pc = "load"
    /\ \/ /\ loaded' = "yes"
          /\ pc' = "main"
          /\ cacheDirty' = Allocated(device, cacheDirty)
          /\ UNCHANGED <<stderr, exitStatus>>
       \/ /\ \E m \in {"model load failed", "warm-up failed"} :
                stderr' = Append(stderr, Traceback(m))
          /\ loaded' = "failed"
          /\ exitStatus' = 0
          /\ pc' = "done"
          /\ cacheDirty' = cacheDirty
    /\ UNCHANGED <<idx, path, retpc, results, stdout>>
    /\ UNCHANGED <<argv, device, vocab, held, raw, exc, pending, ret, calls, once, twice>>

\* lines 9-21: load the preprocessor and the model, run the warm-up; an
\* exception here is outside every try statement
Load ==
    /\ pc = "load"
    /\ \/ /\ loaded' = "yes"
          /\ pc' = "main"
          /\ cacheDirty' = Allocated(device, cacheDirty)
          /\ UNCHANGED <<stderr, exitStatus>>
       \/ /\ \E m \in {"model load failed", "warm-up failed"} :
                stderr' = Append(stderr, Traceback(m))
          /\ loaded' = "failed"
          /\ exitStatus' = 1
          /\ pc' = "done"
          /\ cacheDirty' = cacheDirty
    /\ UNCHANGED <<idx, path, retpc, results, stdout>>
    /\ UNCHANGED <<argv, device, vocab, held, raw, exc, pending, ret, calls, once, twice>>

\* lines 78-80, 83 and 86-88: dispatch on the number of arguments;
\* sys.argv[1] raises IndexError when there is none
Main ==
    /\ pc = "main"
    /\ IF Len(argv) > 1
       THEN /\ results' = <<>>
            /\ idx' = 1
            /\ pc' = "batch_for"
            /\ UNCHANGED <<path, retpc, stderr, exitStatus>>
       ELSE IF Len(argv) = 1
       THEN /\ path' = argv[1]
            /\ retpc' = "single_print"
            /\ pc' = "pi_open"
            /\ UNCHANGED <<idx, results, stderr, exitStatus>>
       ELSE /\ stderr' = Append(stderr, StructuredError("list index out of range"))
            /\ exitStatus' = 1
            /\ pc' = "done"
            /\ UNCHANGED <<idx, path, retpc, results>>
    /\ UNCHANGED <<cacheDirty, stdout>>
    /\ UnchangedCall

\* lines 68-69 and 75: the next path of the loop, or the return of the list
BatchFor ==
    /\ pc = "batch_for"
    /\ IF idx <= Len(argv)
       THEN /\ path' = argv[idx]
            /\ retpc' = "batch_append"
            /\ pc' = "pi_open"
       ELSE /\ pc' = "batch_print"
            /\ UNCHANGED <<path, retpc>>
    /\ UNCHANGED <<idx, cacheDirty, results, stdout, stderr, exitStatus>>
    /\ UnchangedCall

\* lines 70-74: append a record unless the caption is None
BatchAppend ==
    /\ pc = "batch_append"
    /\ results' = Appended(results, argv[idx], ret)
    /\ idx' = idx + 1
    /\ pc' = "batch_for"
    /\ UNCHANGED <<path, retpc, cacheDirty, stdout, stderr, exitStatus>>
    /\ UnchangedCall

\* line 81: print(json.dumps(results)), then the normal end of the process
BatchPrint ==
    /\ pc = "batch_print"
    /\ stdout' = Append(stdout, [kind |-> "json", value |-> results])
    /\ pc' = "done"
    /\ UNCHANGED <<idx, path, retpc, cacheDirty, results, stderr, exitStatus>>
    /\ UnchangedCall

\* lines 84-85: print the caption if there is one, then the normal end
SinglePrint ==
    /\ pc = "single_print"
    /\ stdout' = IF Truthy(ret) THEN Append(stdout, [kind |-> "text", value |-> ret])
                 ELSE stdout
    /\ pc' = "done"
    /\ UNCHANGED <<idx, path, retpc, cacheDirty, results, stderr, exitStatus>>
    /\ UnchangedCall

Next ==
    \/ Load
    \/ Main
    \/ BatchFor
    \/ BatchAppend
    \/ BatchPrint
    \/ SinglePrint
    \/ PI_Open
    \/ PI_Inputs
    \/ PI_Generate
    \/ PI_Decode
    \/ PI_Except
    \/ PI_Finally

Spec == Init /\ [][Next]_vars

(***************************************************************************)
(* Properties                                                              *)
(***************************************************************************)
\* the records of the calls that returned a caption, in call order
RECURSIVE SuccessRecords(_)
SuccessRecords(cs) ==
    IF cs = <<>> THEN <<>>
    ELSE LET rest == SuccessRecords(Tail(cs))
         IN  IF Head(cs).result # Null
             THEN <<[path |-> Head(cs).path, caption |-> Head(cs).result]>> \o rest
             ELSE rest

\* the paths of the calls that returned None, in call order
RECURSIVE FailedPaths(_)
FailedPaths(cs) ==
    IF cs = <<>> THEN <<>>
    ELSE LET rest == FailedPaths(Tail(cs))
         IN  IF Head(cs).result = Null THEN <<Head(cs).path>> \o rest ELSE rest

\* every path of the command line has been processed, in order
AllProcessed ==
    /\ Len(calls) = Len(argv)
    /\ \A i \in DOMAIN argv : calls[i].path = argv[i]

\* C1: generate_batch_captions returns exactly the records of the paths whose
\* process_image call returned a caption, in input order (duplicates kept):
\* no record for a call that returned None, and no more records than paths.
C1_BatchKeepsSuccessesInOrder ==
    /\ pc \in {"batch_for", "batch_print"} => results = SuccessRecords(calls)
    /\ pc = "batch_print" =>
          /\ AllProcessed
          /\ Len(results) <= Len(argv)
          /\ \A k \in DOMAIN results : results[k].caption # Null

C1_Witness ==
    /\ pc = "batch_print"
    /\ Len(argv) = 3
    /\ Len(calls) = 3
    /\ argv[1] = argv[3]
    /\ calls[1].result # Null
    /\ calls[2].result = Null
    /\ calls[3].result # Null
    /\ Len(results) = 2

\* C2: in batch mode a failing process_image call never propagates: every
\* path is still processed, the error stream holds exactly one plain error
\* line per failed call, naming its path, the JSON list is printed once and
\* the exit status is 0.
C2_BatchFailuresIsolated ==
    (Len(argv) >= 2 /\ loaded = "yes") =>
        /\ exitStatus = 0
        /\ pc = "done" =>
              /\ AllProcessed
              /\ Len(stderr) = Len(FailedPaths(calls))
              /\ \A k \in DOMAIN stderr :
                    /\ stderr[k].kind = "plain"
                    /\ stderr[k].path = FailedPaths(calls)[k]
              /\ Len(stdout) = 1
              /\ stdout[1].kind = "json"
              /\ stdout[1].value = results

C2_Witness ==
    /\ pc = "done"
    /\ Len(argv) = 3
    /\ Len(calls) = 3
    /\ calls[1].result = Null
    /\ calls[2].result # Null
    /\ calls[3].result = Null
    /\ Len(stderr) = 2
    /\ Len(results) = 1

\* C3 as stated: every process-level error, a failed load included, ends the
\* process with a non-zero status and a structured error object on the
\* error stream.
C3_EveryFatalErrorStructured ==
    (pc = "done" /\ (loaded = "failed" \/ argv = <<>>)) =>
        /\ exitStatus # 0
        /\ stderr # <<>>
        /\ stderr[Len(stderr)].kind = "json"

\* C3 amended: an exception inside the entry point's try block ends the
\* process with status 1 and a structured error object; a failed load or
\* warm-up, which no try statement covers, ends it with status 1 and the
\* interpreter's traceback, without a structured object and without output.
C3_FatalErrors ==
    pc = "done" =>
        /\ loaded = "failed" =>
              /\ exitStatus = 1
              /\ Len(stderr) = 1
              /\ stderr[1].kind = "traceback"
              /\ stdout = <<>>
              /\ calls = <<>>
        /\ (loaded = "yes" /\ argv = <<>>) =>
              /\ exitStatus = 1
              /\ stderr # <<>>
              /\ stderr[Len(stderr)].kind = "json"

C3_Witness == pc = "done" /\ loaded = "failed" /\ exitStatus = 1

\* C4: started without a path (the model loaded), the program makes no
\* process_image call, prints nothing to standard output, writes one
\* structured error object to the error stream and ends with status 1.
C4_MissingArgument ==
    (loaded = "yes" /\ argv = <<>>) =>
        /\ pc \notin PIStates
        /\ calls = <<>>
        /\ stdout = <<>>
        /\ pc = "done" =>
              /\ exitStatus = 1
              /\ Len(stderr) = 1
              /\ stderr[1].kind = "json"
              /\ stderr[1].error = "list index out of range"

C4_Witness == pc = "done" /\ loaded = "yes" /\ argv = <<>> /\ Len(stderr) = 1

\* C5: with exactly one path, a failed process_image call leaves standard
\* output empty, one plain error line for the path on the error stream and
\* status 0; a successful one prints exactly the cleaned caption and leaves
\* the error stream empty.
C5_SingleImage ==
    (Len(argv) = 1 /\ loaded = "yes" /\ pc = "done") =>
        /\ Len(calls) = 1
        /\ calls[1].path = argv[1]
        /\ exitStatus = 0
        /\ IF calls[1].result = Null
           THEN /\ stdout = <<>>
                /\ Len(stderr) = 1
                /\ stderr[1].kind = "plain"
                /\ stderr[1].path = argv[1]
           ELSE /\ Len(stdout) = 1
                /\ stdout[1].kind = "text"
                /\ stdout[1].value = clean_caption(raw)
                /\ stderr = <<>>

C5_Witness ==
    /\ pc = "done"
    /\ Len(argv) = 1
    /\ Len(calls) = 1
    /\ calls[1].result = Null
    /\ Len(stderr) = 1
    /\ stdout = <<>>

\* one of the four phrases occurs in s as a substring, ignoring case
ContainsPhrase(s) ==
    \E a \in DOMAIN Alternatives : \E i \in 1 .. Len(s) : LiteralAt(Alternatives[a], s, i)

\* the pattern matches nowhere in s
NoWholeWordMatch(s) == \A i \in 1 .. Len(s) : MatchLen(s, i) = 0

\* every character of s has a one-character lower case and title case
SingleCase(s) == \A k \in DOMAIN s : Len(Lower(s[k])) = 1 /\ Len(Title(s[k])) = 1

\* C6 as stated: whatever the model decodes, process_image returns None or
\* a non-empty string whose first character is not a lower-case letter and
\* in which none of the four phrases occurs as a substring, ignoring case.
C6_NoPhraseAsSubstring ==
    pc = "returned" =>
        \/ ret = Null
        \/ /\ ret # <<>>
           /\ ~IsAsciiLower(ret[1])
           /\ ~ContainsPhrase(ret)

\* C6 amended: process_image returns None or a non-empty string; when every
\* character of the decoded text has one-character case forms (all ASCII
\* text has), the string is in capitalized form (capitalize leaves it
\* unchanged) and holds no whole-word match of the pattern, ignoring case.
C6_NoWholeWordPhrase ==
    pc = "returned" =>
        \/ ret = Null
        \/ /\ ret # <<>>
           /\ SingleCase(raw) => (Capitalize(ret) = ret /\ NoWholeWordMatch(ret))

C6_Witness ==
    /\ pc = "returned"
    /\ ret # Null
    /\ SingleCase(raw)
    /\ ContainsPhrase(ret)
    /\ ReSub(raw) # raw

\* C7 as stated: clean_caption(clean_caption(s)) = clean_caption(s) for
\* every caption s.
C7_Idempotent == pc = "recleaned" => twice = once

\* C7 amended: clean_caption(clean_caption(s)) = clean_caption(s) for every
\* caption s whose characters all have one-character lower-case and
\* title-case forms (all ASCII text has).
C7_IdempotentSingleCase == (pc = "recleaned" /\ SingleCase(raw)) => twice = once

C7_Witness ==
    /\ pc = "recleaned"
    /\ SingleCase(raw)
    /\ ReSub(raw) # raw
    /\ ContainsPhrase(once)
    /\ LowerAll(once) # LowerAll(raw)
    /\ twice = once

DogRaw ==
    <<"a"," ","p","h","o","t","o"," ","o","f"," ","a"," ","d","o","g"," ",
      "r","u","n","n","i","n","g">>

\* C8 as stated: clean_caption("a photo of a dog running") is "Dog running".
C8_DogRunning ==
    (pc = "cleaned" /\ raw = DogRaw) =>
        once = <<"D","o","g"," ","r","u","n","n","i","n","g">>

\* C8 amended: clean_caption("a photo of a dog running") is "A dog running".
C8_ADogRunning ==
    (pc = "cleaned" /\ raw = DogRaw) =>
        once = <<"A"," ","d","o","g"," ","r","u","n","n","i","n","g">>

C8_Witness == pc = "cleaned" /\ raw = DogRaw /\ once # Null

\* the positions of s the phrases cover: as substrings (whole = FALSE) or
\* as whole-word matches (whole = TRUE)
Covered(s, whole) ==
    LET at(a, i) == /\ LiteralAt(Alternatives[a], s, i)
                    /\ whole => (Boundary(s, i) /\ Boundary(s, i + Len(Alternatives[a])))
    IN  UNION { {j \in i .. i + Len(Alternatives[a]) - 1 : at(a, i)} :
                  a \in DOMAIN Alternatives, i \in 1 .. Len(s) }

\* s without the positions in drop
RECURSIVE Without(_, _, _)
Without(s, drop, i) ==
    IF i > Len(s) THEN <<>>
    ELSE (IF i \in drop THEN <<>> ELSE <<s[i]>>) \o Without(s, drop, i + 1)

\* s from its first to its last character that is not whitespace
Trimmed(s) ==
    LET solid == {k \in DOMAIN s : ~IsSpace(s[k])}
    IN  IF solid = {} THEN <<>>
        ELSE SubSeq(s, CHOOSE k \in solid : \A m \in solid : k <= m,
                       CHOOSE k \in solid : \A m \in solid : k >= m)

CatRaw == <<"A","N"," ","I","M","A","G","E"," ","O","F"," ","a"," ","c","a","t">>

\* C9 as stated: clean_caption removes every occurrence of the phrases,
\* ignoring case, trims, and capitalizes the first character; no other
\* character changes case. (Stated for the captions whose characters have
\* one-character case forms, where "capitalizes" has one reading.)
C9_FirstCharacterOnly ==
    (pc = "cleaned" /\ SingleCase(raw)) =>
        LET t == Trimmed(Without(raw, Covered(raw, FALSE), 1))
        IN  once = IF t = <<>> THEN <<>> ELSE Title(t[1]) \o Tail(t)

\* C9 amended: clean_caption removes every whole-word match of the phrases
\* (one that begins and ends at a word boundary), ignoring case, trims, puts
\* the first character in title case and every other character in lower
\* case; "AN IMAGE OF a cat" gives "A cat".
C9_WholeWordsLowerRest ==
    pc = "cleaned" =>
        LET t == Trimmed(Without(raw, Covered(raw, TRUE), 1))
        IN  /\ once = IF t = <<>> THEN <<>> ELSE Title(t[1]) \o LowerAll(Tail(t))
            /\ raw = CatRaw => once = <<"A"," ","c","a","t">>

C9_Witness ==
    /\ pc = "cleaned"
    /\ raw = <<"A","N"," ","I","M","A","G","E"," ","O","F"," ","N","Y","C","\t">>
    /\ once = <<"N","y","c">>

\* C10: whenever process_image has returned, none of its image, inputs and
\* outputs is still alive and the accelerator's cache holds nothing, on every
\* path through the call; so a call starts with nothing held by an earlier one.
C10_ResourcesReleased ==
    /\ (calls # <<>> /\ pc \notin PIStates) => (held = {} /\ ~cacheDirty)
    /\ pc = "pi_open" => held = {}

C10_Witness ==
    /\ pc = "batch_append"
    /\ device = "cuda"
    /\ Len(calls) = 2
    /\ calls[1].result # Null
    /\ calls[2].result = Null
    /\ exc = "generation failed"
    /\ held = {}

====
